---- MODULE Spec2Model ----
(***************************************************************************)
(* Model of common/build.go: the Build record, the unique-slot allocator   *)
(* AssignID, the StartBuild/FinishBuild setters, the status reporter       *)
(* SendBuildLog and the orchestrator Run.                                  *)
(*                                                                         *)
(* Strings are sequences of tokens, the empty string is << >>.             *)
(***************************************************************************)
EXTENDS Integers, Sequences, FiniteSets, TLC

(* ------------------------------ bounds -------------------------------- *)

\* largest number of builds the registry holds at once
MaxBuilds == 3
\* longest otherBuilds argument AssignID is applied to directly
MaxOthers == 2
\* time.Now() returns Epoch .. Epoch + MaxTime
MaxTime == 1
\* most UpdateFailed outcomes of a collaborator that recovers
MaxFails == 3
\* most appends to the build log
MaxLog == 1
\* most WriteString and WriteRune calls of the threads that share the log
MaxAppends == 2
\* most path segments of a repository URL
MaxSegments == 2
\* largest number of builds, active or being registered, when registrars race
MaxRacing == 2

(* ----------------------------- constants ------------------------------ *)

\* BuildState values, build.go:17-22; "" is the zero value of a new Build
Pending == "pending"
Running == "running"
Failed == "failed"
Success == "success"

\* the value of a nil error and of a nil Executor
Nil == "nil"

\* the executor names that resolve; "bogus" is not among them
RegisteredExecutors == {"shell", "docker"}

\* the errors an executor stage may return
StageErrors == {"e1", "e2"}

\* outcomes of UpdateBuild
UpdateFailed == "UpdateFailed"
NotFailed == {"UpdateSucceeded", "UpdateAbort"}

\* failsLeft of a collaborator that never recovers
Forever == MaxFails + 1

\* counters of calls and sleeps stop counting here
CounterCap == MaxFails + 2

\* the zero time.Time, the largest time.Duration and the first clock reading,
\* scaled: a clock reading minus ZeroTime exceeds MaxDuration
ZeroTime == 0
MaxDuration == MaxTime + 1
Epoch == MaxDuration + 1

\* runner configurations: two of them share a short description
RunnerConfigs ==
  { [Description |-> "r1", Executor |-> "shell"],
    [Description |-> "r1", Executor |-> "docker"],
    [Description |-> "r2", Executor |-> "bogus"] }

\* the (runner, ProjectID) pairs of the jobs the agent receives
Jobs ==
  { <<[Description |-> "r1", Executor |-> "shell"], 1>>,
    <<[Description |-> "r1", Executor |-> "docker"], 2>>,
    <<[Description |-> "r2", Executor |-> "bogus"], 1>> }

\* b.Runner.ShortDescription()
ShortDescription(runner) == runner.Description

VARIABLES
  builds,        \* registry: the sequence of the active builds
  otherBuilds,   \* AssignID applied directly: the argument
  cand,          \* AssignID applied directly: <<b>> before the call, << >> when not called
  assigned,      \* AssignID applied directly: <<b>> after the call, << >> when not called
  Runner,        \* b.Runner of the build that is run
  BuildState, BuildStarted, BuildFinished, BuildDuration, BuildMessage, BuildDir,
  buildLog,      \* b.buildLog
  clock,         \* the last reading of time.Now()
  op,            \* the call the orchestrating thread is in, or returned from last
  pc,            \* where that call stands
  executor,      \* Run's local executor
  err,           \* Run's local err
  ret,           \* what the last call returned
  calls,         \* the collaborator calls of the current call, in order
  buildTrace,    \* SendBuildLog's local buildTrace
  failsLeft,     \* UpdateFailed outcomes the collaborator still gives
  k,             \* failsLeft when SendBuildLog was entered
  updates,       \* UpdateBuild calls of the current SendBuildLog
  sleeps,        \* time.Sleep calls of the current SendBuildLog
  lastUpdate,    \* outcome of the last UpdateBuild call
  sent,          \* the traces the UpdateBuild calls of the current SendBuildLog were given
  logAtEntry,    \* the log content when the current SendBuildLog was entered
  usage,         \* how the caller has used the build so far
  writers,       \* buildLogLock: the threads that hold it for writing
  readers,       \* buildLogLock: the threads that hold it for reading
  pendingW,      \* buildLogLock: the threads blocked in Lock()
  tpc,           \* log threads: the method each is in and where it stands
  todo,          \* log threads: the bytes an append has still to copy
  logRead,       \* log threads: what the last BuildLog() returned
  lenRead,       \* log threads: what the last BuildLogLen() returned
  atStart,       \* log threads: doneReads when the current read began
  doneReads,     \* the longest BuildLog() and the largest BuildLogLen() that returned
  issued,        \* the data of the appends called so far, in call order
  order,         \* the data of the appends, in the order they took the lock
  RepoURL,       \* b.RepoURL, a string of tokens: names, "80", ".", "/", ":"
  slugRet,       \* <<what ProjectSlug() returned>>, << >> when not called
  rpc,           \* registrars: where each stands in its three steps
  snapshot,      \* registrars: the active set each has read
  mine,          \* registrars: <<the build each is registering>>, << >> when none
  raced          \* a registrar began while another was between its steps

regVars == <<builds, otherBuilds, cand, assigned>>
timeVars == <<BuildStarted, BuildFinished, BuildDuration, clock>>
sendVars == <<buildTrace, failsLeft, k, updates, sleeps, lastUpdate, sent, logAtEntry>>
runVars == <<op, pc, executor, err, ret, calls, usage>>
buildVars ==
  <<Runner, BuildState, BuildMessage, BuildDir, buildLog, timeVars, sendVars, runVars>>
\* the Build record without its log
recordVars == <<Runner, BuildState, BuildMessage, BuildDir, timeVars, sendVars, runVars>>
lockVars == <<writers, readers, pendingW>>
logVars == <<lockVars, tpc, todo, logRead, lenRead, atStart, doneReads, issued, order>>
\* what the calls on one build leave alone besides the registry
slugVars == <<RepoURL, slugRet>>
raceVars == <<rpc, snapshot, mine, raced>>
extVars == <<logVars, slugVars, raceVars>>
\* what the log threads leave alone
exceptLog == <<regVars, recordVars, slugVars, raceVars>>
\* what ProjectSlug leaves alone
exceptSlug == <<regVars, buildVars, logVars, raceVars>>
\* what the registrars leave alone
exceptRace == <<otherBuilds, cand, assigned, buildVars, logVars, slugVars>>
vars == <<regVars, buildVars, extVars>>

(* ------------------------------ AssignID ------------------------------ *)

\* a Build as the allocator sees it
NewBuild(runner, project) ==
  [Runner |-> runner, ProjectID |-> project,
   GlobalID |-> 0, RunnerID |-> 0, ProjectRunnerID |-> 0]

\* the three maps before the first iteration, build.go:50-52
EmptyMaps == [globals |-> {}, runners |-> {}, projectRunners |-> {}]

\* faulty variant: the project test comes before the runner set is filled
RECURSIVE CollectProjectFirst(_, _, _, _)
CollectProjectFirst(b, others, i, maps) ==
  IF i > Len(others) THEN maps
  ELSE LET o == others[i]
           g == [maps EXCEPT !.globals = @ \cup {o.GlobalID}]
           r == [g EXCEPT !.runners = @ \cup {o.RunnerID}]
           p == [r EXCEPT !.projectRunners = @ \cup {o.ProjectRunnerID}]
       IN IF ShortDescription(o.Runner) # ShortDescription(b.Runner)
             \/ o.ProjectID # b.ProjectID
          THEN CollectProjectFirst(b, others, i + 1, g)
          ELSE CollectProjectFirst(b, others, i + 1, p)

\* the loop over otherBuilds from index i on, build.go:54-66
RECURSIVE Collect(_, _, _, _)
Collect(b, others, i, maps) ==
  IF i > Len(others) THEN maps
  ELSE LET o == others[i]
           g == [maps EXCEPT !.globals = @ \cup {o.GlobalID}]
           r == [g EXCEPT !.runners = @ \cup {o.RunnerID}]
           p == [r EXCEPT !.projectRunners = @ \cup {o.ProjectRunnerID}]
       IN IF ShortDescription(o.Runner) # ShortDescription(b.Runner)
          THEN Collect(b, others, i + 1, g)
          ELSE IF o.ProjectID # b.ProjectID
               THEN Collect(b, others, i + 1, r)
               ELSE Collect(b, others, i + 1, p)

\* faulty variant: one past the largest used integer, gaps are not filled
RECURSIVE NextAfterLargest(_, _)
NextAfterLargest(used, i) ==
  IF \A u \in used : u < i THEN i ELSE NextAfterLargest(used, i + 1)

\* for i := 0; ; i++ { if !used[i] { ...; break } }, build.go:68-87
RECURSIVE FirstUnused(_, _)
FirstUnused(used, i) ==
  IF i \notin used THEN i ELSE FirstUnused(used, i + 1)

\* faulty variant: the GlobalID is searched in the project map
AssignIDGlobalPerProject(b, others) ==
  LET maps == Collect(b, others, 1, EmptyMaps)
  IN [b EXCEPT !.GlobalID = FirstUnused(maps.projectRunners, 0),
               !.RunnerID = FirstUnused(maps.runners, 0),
               !.ProjectRunnerID = FirstUnused(maps.projectRunners, 0)]

\* b after b.AssignID(others...), build.go:49-88
AssignID(b, others) ==
  LET maps == Collect(b, others, 1, EmptyMaps)
  IN [b EXCEPT !.GlobalID = FirstUnused(maps.globals, 0),
               !.RunnerID = FirstUnused(maps.runners, 0),
               !.ProjectRunnerID = FirstUnused(maps.projectRunners, 0)]

\* fmt.Sprintf("runner-%s-project-%d-concurrent-%d", ...), build.go:90-93
ProjectUniqueName(b) ==
  "runner-" \o ShortDescription(b.Runner) \o "-project-" \o ToString(b.ProjectID)
    \o "-concurrent-" \o ToString(b.ProjectRunnerID)

\* faulty variant: the slot is left out of the directory
ProjectUniqueDirOfProject(b) ==
  ShortDescription(b.Runner) \o "-" \o ToString(b.ProjectID)

\* fmt.Sprintf("%s-%d-%d", ...), build.go:95-98
ProjectUniqueDir(b) ==
  ShortDescription(b.Runner) \o "-" \o ToString(b.ProjectID)
    \o "-" \o ToString(b.ProjectRunnerID)

(* ------------------------------ registry ------------------------------ *)

\* seq without its i-th element
RemoveAt(seq, i) == SubSeq(seq, 1, i - 1) \o SubSeq(seq, i + 1, Len(seq))

\* one linearized step: read the active set, assign the identity, register
Register(runner, project) ==
  /\ Len(builds) < MaxBuilds
  /\ builds' = Append(builds, AssignID(NewBuild(runner, project), builds))
  /\ UNCHANGED <<cand, otherBuilds, assigned>>
  /\ UNCHANGED <<buildVars, extVars>>

\* the i-th active build finished and leaves the registry
Deregister(i) ==
  /\ i \in 1..Len(builds)
  /\ builds' = RemoveAt(builds, i)
  /\ UNCHANGED <<cand, otherBuilds, assigned>>
  /\ UNCHANGED <<buildVars, extVars>>

(* ---------------- registration in three separate steps ----------------- *)

\* the goroutines that register builds without a lock around their steps
Registrars == {"p1", "p2"}

\* the jobs the racing registrars receive: one runner, two projects
RacingJobs == { job \in Jobs : ShortDescription(job[1]) = "r1" }

\* the registrars between their first and their last step
InFlight == { p \in Registrars : rpc[p] # "idle" }

\* step 1: registrar p receives a job and reads the active set
ReadActive(p, runner, project) ==
  /\ rpc[p] = "idle"
  /\ Len(builds) + Cardinality(InFlight) < MaxRacing
  /\ snapshot' = [snapshot EXCEPT ![p] = builds]
  /\ mine' = [mine EXCEPT ![p] = <<NewBuild(runner, project)>>]
  /\ rpc' = [rpc EXCEPT ![p] = "read"]
  /\ raced' = (raced \/ InFlight # {})
  /\ UNCHANGED <<builds, exceptRace>>

\* step 2: b.AssignID(others...) on what p has read; AssignID takes no lock
\* and reads nothing but its arguments
AssignOnSnapshot(p) ==
  /\ rpc[p] = "read"
  /\ mine' = [mine EXCEPT ![p] = <<AssignID(mine[p][1], snapshot[p])>>]
  /\ rpc' = [rpc EXCEPT ![p] = "assigned"]
  /\ UNCHANGED <<builds, snapshot, raced, exceptRace>>

\* step 3: p adds its build to the active set
RegisterAssigned(p) ==
  /\ rpc[p] = "assigned"
  /\ builds' = Append(builds, mine[p][1])
  /\ mine' = [mine EXCEPT ![p] = << >>]
  /\ snapshot' = [snapshot EXCEPT ![p] = << >>]
  /\ rpc' = [rpc EXCEPT ![p] = "idle"]
  /\ UNCHANGED <<raced, exceptRace>>

(* ----------------------- AssignID applied directly --------------------- *)

\* any build another caller may hand in: identities need not come from AssignID
OtherIDs == {0, 1, 2}

AnyBuilds ==
  { [NewBuild(job[1], job[2]) EXCEPT !.GlobalID = g, !.RunnerID = r, !.ProjectRunnerID = p] :
      job \in Jobs, g \in OtherIDs, r \in OtherIDs, p \in OtherIDs }

AddOther(o) ==
  /\ assigned = << >>
  /\ Len(otherBuilds) < MaxOthers
  /\ otherBuilds' = Append(otherBuilds, o)
  /\ UNCHANGED <<builds, cand, assigned>>
  /\ UNCHANGED <<buildVars, extVars>>

CallAssignID(b) ==
  /\ assigned = << >>
  /\ cand' = <<b>>
  /\ assigned' = <<AssignID(b, otherBuilds)>>
  /\ UNCHANGED <<builds, otherBuilds>>
  /\ UNCHANGED <<buildVars, extVars>>

(* ------------------------- the Build record ---------------------------- *)

\* what a call that returns nothing leaves in ret
NoReturn == "none"

\* errors.New("executor not found"), build.go:185
ErrExecutorNotFound == "executor not found"

\* a reading of time.Now(): the clock never runs backwards
Now == clock..(Epoch + MaxTime)

\* faulty variant: the difference is never cut to the range of Duration
SubExact(t, u) == t - u

\* t.Sub(u): the difference, or the largest (smallest) Duration when it does
\* not fit, build.go:136
Sub(t, u) ==
  LET d == t - u
  IN IF d > MaxDuration THEN MaxDuration
     ELSE IF d < -MaxDuration THEN -MaxDuration
     ELSE d

\* fmt.Sprintf over a format given as tokens: each verb takes the next
\* argument, %d prints an integer, build.go:134
RECURSIVE Sprintf(_, _)
Sprintf(format, args) ==
  IF format = << >>
  THEN IF args = << >> THEN << >> ELSE <<"%!(EXTRA)">>
  ELSE IF Head(format) \in {"%v", "%s", "%d"}
       THEN IF args = << >>
            THEN <<"%!(MISSING)">> \o Sprintf(Tail(format), args)
            ELSE <<IF Head(format) = "%d" THEN ToString(Head(args)) ELSE Head(args)>>
                   \o Sprintf(Tail(format), Tail(args))
       ELSE <<Head(format)>> \o Sprintf(Tail(format), args)

\* faulty variant: the state is not set
StartBuildKeepsState(buildDir) ==
  /\ \E t \in Now : clock' = t /\ BuildStarted' = t
  /\ BuildDir' = buildDir
  /\ UNCHANGED <<BuildState, BuildFinished, BuildDuration, BuildMessage>>

\* b.StartBuild(buildDir), build.go:126-130
StartBuild(buildDir) ==
  /\ \E t \in Now : clock' = t /\ BuildStarted' = t
  /\ BuildState' = Pending
  /\ BuildDir' = buildDir
  /\ UNCHANGED <<BuildFinished, BuildDuration, BuildMessage>>

\* faulty variant: the state is set to Running whatever state is given
FinishBuildSetsRunning(buildState, buildMessage, args) ==
  /\ BuildState' = Running
  /\ BuildMessage' = <<"\n">> \o Sprintf(buildMessage, args)
  /\ \E t \in Now :
       clock' = t /\ BuildFinished' = t /\ BuildDuration' = Sub(t, BuildStarted)
  /\ UNCHANGED <<BuildStarted, BuildDir>>

\* b.FinishBuild(buildState, buildMessage, args...), build.go:132-137
FinishBuild(buildState, buildMessage, args) ==
  /\ BuildState' = buildState
  /\ BuildMessage' = <<"\n">> \o Sprintf(buildMessage, args)
  /\ \E t \in Now :
       clock' = t /\ BuildFinished' = t /\ BuildDuration' = Sub(t, BuildStarted)
  /\ UNCHANGED <<BuildStarted, BuildDir>>

\* b.BuildLog(), build.go:139-143
BuildLog == buildLog

\* b.WriteString(data) by the thread that pumps the job's output,
\* build.go:151-155
WriteString(data) ==
  /\ Len(buildLog) < MaxLog
  /\ buildLog' = buildLog \o data
  /\ UNCHANGED <<regVars, extVars, Runner, BuildState, BuildMessage, BuildDir, timeVars,
                 sendVars, runVars>>

(* ------------------- the build log under buildLogLock ------------------ *)

\* the goroutines that share one build's log
LogThreads == {"t1", "t2", "t3"}

\* the strings WriteString is called with
StringData == {<<"a", "b">>}

\* the runes WriteRune is called with: one that takes two bytes
Runes == {"y"}

\* the UTF-8 bytes bytes.Buffer.WriteRune copies: "x" is one byte, "y" two
EncodeRune(r) == IF r = "x" THEN <<"x">> ELSE <<"y1", "y2">>

\* no read has returned: the longest result and the largest length so far
NoReads == [BuildLog |-> << >>, BuildLogLen |-> 0]

\* the longer of two strings, the first when they are equally long
Longer(a, b) == IF Len(b) > Len(a) THEN b ELSE a

\* the larger of two integers
Max(a, b) == IF b > a THEN b ELSE a

\* faulty variant: a reader does not wait for the writer
RLockIgnoresWriter == TRUE

\* sync.RWMutex: RLock() returns when no writer holds the lock or waits for it
CanRLock == writers = {} /\ pendingW = {}

\* faulty variant: a writer does not wait for the readers
LockIgnoresReaders == writers = {}

\* sync.RWMutex: Lock() returns when nobody holds the lock
CanLock == writers = {} /\ readers = {}

\* a reading method passes b.buildLogLock.RLock()
RLock(t, method) ==
  /\ tpc[t] = "idle"
  /\ CanRLock
  /\ readers' = readers \cup {t}
  /\ tpc' = [tpc EXCEPT ![t] = method]
  /\ atStart' = [atStart EXCEPT ![t] = doneReads]
  /\ UNCHANGED <<writers, pendingW, todo, logRead, lenRead, doneReads, issued, order,
                 buildLog, exceptLog>>

\* faulty variant: a reading method returns with the lock still held
RUnlockForgotten(t, method, done) ==
  /\ tpc[t] = method
  /\ tpc' = [tpc EXCEPT ![t] = "idle"]
  /\ doneReads' = done
  /\ logRead' = [logRead EXCEPT ![t] = << >>]
  /\ lenRead' = [lenRead EXCEPT ![t] = 0]
  /\ atStart' = [atStart EXCEPT ![t] = NoReads]
  /\ UNCHANGED <<lockVars, todo, issued, order, buildLog, exceptLog>>

\* the deferred b.buildLogLock.RUnlock() of a reading method, and its return
RUnlock(t, method, done) ==
  /\ tpc[t] = method
  /\ readers' = readers \ {t}
  /\ tpc' = [tpc EXCEPT ![t] = "idle"]
  /\ doneReads' = done
  /\ logRead' = [logRead EXCEPT ![t] = << >>]
  /\ lenRead' = [lenRead EXCEPT ![t] = 0]
  /\ atStart' = [atStart EXCEPT ![t] = NoReads]
  /\ UNCHANGED <<writers, pendingW, todo, issued, order, buildLog, exceptLog>>

\* an appending method is called with data and blocks in b.buildLogLock.Lock()
LockCall(t, method, data) ==
  /\ tpc[t] = "idle"
  /\ Len(issued) < MaxAppends
  /\ pendingW' = pendingW \cup {t}
  /\ tpc' = [tpc EXCEPT ![t] = method]
  /\ todo' = [todo EXCEPT ![t] = data]
  /\ issued' = Append(issued, data)
  /\ UNCHANGED <<writers, readers, logRead, lenRead, atStart, doneReads, order,
                 buildLog, exceptLog>>

\* b.buildLogLock.Lock() returns
Lock(t, method, next) ==
  /\ tpc[t] = method
  /\ CanLock
  /\ pendingW' = pendingW \ {t}
  /\ writers' = writers \cup {t}
  /\ tpc' = [tpc EXCEPT ![t] = next]
  /\ order' = Append(order, todo[t])
  /\ UNCHANGED <<readers, todo, logRead, lenRead, atStart, doneReads, issued,
                 buildLog, exceptLog>>

\* faulty variant: the buffer is reset before a byte is copied
CopyByteResets(t, method) ==
  /\ tpc[t] = method
  /\ todo[t] # << >>
  /\ buildLog' = <<Head(todo[t])>>
  /\ todo' = [todo EXCEPT ![t] = Tail(@)]
  /\ UNCHANGED <<lockVars, tpc, logRead, lenRead, atStart, doneReads, issued, order,
                 exceptLog>>

\* bytes.Buffer grows by one byte of the data an appending method copies
CopyByte(t, method) ==
  /\ tpc[t] = method
  /\ todo[t] # << >>
  /\ buildLog' = Append(buildLog, Head(todo[t]))
  /\ todo' = [todo EXCEPT ![t] = Tail(@)]
  /\ UNCHANGED <<lockVars, tpc, logRead, lenRead, atStart, doneReads, issued, order,
                 exceptLog>>

\* the deferred b.buildLogLock.Unlock() of an appending method, and its return
Unlock(t, method) ==
  /\ tpc[t] = method
  /\ todo[t] = << >>
  /\ writers' = writers \ {t}
  /\ tpc' = [tpc EXCEPT ![t] = "idle"]
  /\ UNCHANGED <<readers, pendingW, todo, logRead, lenRead, atStart, doneReads, issued,
                 order, buildLog, exceptLog>>

\* BuildLog(): RLock, build.go:140
BuildLogRLock(t) == RLock(t, "BuildLog.String")

\* BuildLog(): return b.buildLog.String(), build.go:142
BuildLogString(t) ==
  /\ tpc[t] = "BuildLog.String"
  /\ logRead' = [logRead EXCEPT ![t] = buildLog]
  /\ tpc' = [tpc EXCEPT ![t] = "BuildLog.RUnlock"]
  /\ UNCHANGED <<lockVars, todo, lenRead, atStart, doneReads, issued, order,
                 buildLog, exceptLog>>

\* BuildLog(): the deferred RUnlock, build.go:141
BuildLogRUnlock(t) == 
  RUnlock(t, "BuildLog.RUnlock", [doneReads EXCEPT !.BuildLog = Longer(@, logRead[t])])

\* BuildLogLen(): RLock, build.go:146
BuildLogLenRLock(t) == RLock(t, "BuildLogLen.Len")

\* BuildLogLen(): return b.buildLog.Len(), build.go:148
BuildLogLenLen(t) ==
  /\ tpc[t] = "BuildLogLen.Len"
  /\ lenRead' = [lenRead EXCEPT ![t] = Len(buildLog)]
  /\ tpc' = [tpc EXCEPT ![t] = "BuildLogLen.RUnlock"]
  /\ UNCHANGED <<lockVars, todo, logRead, atStart, doneReads, issued, order,
                 buildLog, exceptLog>>

\* BuildLogLen(): the deferred RUnlock, build.go:147
BuildLogLenRUnlock(t) == 
  RUnlock(t, "BuildLogLen.RUnlock", [doneReads EXCEPT !.BuildLogLen = Max(@, lenRead[t])])

\* WriteString(data), step by step, build.go:151-155
WriteStringCall(t, data) == LockCall(t, "WriteString.Lock", data)
WriteStringLock(t) == Lock(t, "WriteString.Lock", "WriteString.Write")
WriteStringWrite(t) == CopyByte(t, "WriteString.Write")
WriteStringUnlock(t) == Unlock(t, "WriteString.Write")

\* WriteRune(r), step by step, build.go:157-161
WriteRuneCall(t, r) == LockCall(t, "WriteRune.Lock", EncodeRune(r))
WriteRuneLock(t) == Lock(t, "WriteRune.Lock", "WriteRune.Write")
WriteRuneWrite(t) == CopyByte(t, "WriteRune.Write")
WriteRuneUnlock(t) == Unlock(t, "WriteRune.Write")

(* ----------------------------- ProjectSlug ----------------------------- *)

\* A URL is a sequence of tokens: "." "/" ":" stand for themselves, "80" is
\* a run of digits and every other token is a run of letters.
Digits == {"80"}
IsLetters(c) == c \notin Digits \cup {".", "/", ":"}

\* the first index of c in str from i on, 0 when there is none
RECURSIVE IndexFrom(_, _, _)
IndexFrom(str, c, i) ==
  IF i > Len(str) THEN 0
  ELSE IF str[i] = c THEN i
  ELSE IndexFrom(str, c, i + 1)

\* strings.HasPrefix(str, prefix) and strings.HasSuffix(str, suffix)
HasPrefix(str, prefix) ==
  Len(str) >= Len(prefix) /\ SubSeq(str, 1, Len(prefix)) = prefix
HasSuffix(str, suffix) ==
  Len(str) >= Len(suffix) /\ SubSeq(str, Len(str) - Len(suffix) + 1, Len(str)) = suffix

\* strings.Split(str, sep) for a one-character sep
RECURSIVE Split(_, _)
Split(str, sep) ==
  LET i == IndexFrom(str, sep, 1)
  IN IF i = 0 THEN <<str>>
     ELSE <<SubSeq(str, 1, i - 1)>> \o Split(SubSeq(str, i + 1, Len(str)), sep)

\* strings.Contains(str, "..")
ContainsDotDot(str) == \E i \in 1..(Len(str) - 1) : str[i] = "." /\ str[i + 1] = "."

\* strings.TrimSuffix(str, ".git")
TrimSuffix(str) ==
  IF HasSuffix(str, <<".", "git">>) THEN SubSeq(str, 1, Len(str) - 2) ELSE str

\* net/url getscheme from character i on: letters go on, a digit or "." goes
\* on except in front, ":" ends the scheme and is an error in front, any other
\* character means there is no scheme
RECURSIVE GetScheme(_, _)
GetScheme(rawurl, i) ==
  IF i > Len(rawurl) THEN [scheme |-> << >>, rest |-> rawurl, err |-> Nil]
  ELSE IF IsLetters(rawurl[i]) THEN GetScheme(rawurl, i + 1)
  ELSE IF rawurl[i] \in Digits \cup {"."}
       THEN IF i = 1 THEN [scheme |-> << >>, rest |-> rawurl, err |-> Nil]
            ELSE GetScheme(rawurl, i + 1)
  ELSE IF rawurl[i] = ":"
       THEN IF i = 1
            THEN [scheme |-> << >>, rest |-> << >>, err |-> "missing protocol scheme"]
            ELSE [scheme |-> SubSeq(rawurl, 1, i - 1),
                  rest |-> SubSeq(rawurl, i + 1, Len(rawurl)), err |-> Nil]
  ELSE [scheme |-> << >>, rest |-> rawurl, err |-> Nil]

\* net/url parseHost: what follows the last ":" of the authority is digits
ValidPort(authority) ==
  LET parts == Split(authority, ":")
      port == parts[Len(parts)]
  IN Len(parts) = 1 \/ \A i \in 1..Len(port) : port[i] \in Digits

\* url.Parse(rawurl) for a rawurl without "?", "#", "@", "%" and brackets:
\* the fields ProjectSlug reads, build.go:101
Parse(rawurl) ==
  LET s == GetScheme(rawurl, 1)
      rest == s.rest
      slash == IndexFrom(rest, "/", 3)
      authority == IF slash = 0 THEN SubSeq(rest, 3, Len(rest))
                   ELSE SubSeq(rest, 3, slash - 1)
      path == IF slash = 0 THEN << >> ELSE SubSeq(rest, slash, Len(rest))
  IN IF s.err # Nil THEN [err |-> s.err, Host |-> << >>, Path |-> << >>]
     ELSE IF ~HasPrefix(rest, <<"/">>)
          THEN IF s.scheme # << >>
               THEN [err |-> Nil, Host |-> << >>, Path |-> << >>]
               ELSE IF IndexFrom(Split(rest, "/")[1], ":", 1) # 0
                    THEN [err |-> "first path segment in URL cannot contain colon",
                          Host |-> << >>, Path |-> << >>]
                    ELSE [err |-> Nil, Host |-> << >>, Path |-> rest]
     ELSE IF HasPrefix(rest, <<"/", "/">>)
             /\ (s.scheme # << >> \/ ~HasPrefix(rest, <<"/", "/", "/">>))
          THEN IF ValidPort(authority)
               THEN [err |-> Nil, Host |-> authority, Path |-> path]
               ELSE [err |-> "invalid port after host", Host |-> << >>, Path |-> << >>]
     ELSE [err |-> Nil, Host |-> << >>, Path |-> rest]

\* filepath.Clean, the loop over the elements of a path: empty elements and
\* "." are dropped, ".." removes the element before it, or stays in a path
\* that is not rooted when there is none to remove
RECURSIVE CleanElements(_, _, _, _)
CleanElements(elems, i, rooted, out) ==
  IF i > Len(elems) THEN out
  ELSE IF elems[i] \in {<< >>, <<".">>}
       THEN CleanElements(elems, i + 1, rooted, out)
  ELSE IF elems[i] = <<".", ".">>
       THEN IF out # << >> /\ out[Len(out)] # <<".", ".">>
            THEN CleanElements(elems, i + 1, rooted, SubSeq(out, 1, Len(out) - 1))
            ELSE IF rooted THEN CleanElements(elems, i + 1, rooted, out)
            ELSE CleanElements(elems, i + 1, rooted, Append(out, elems[i]))
  ELSE CleanElements(elems, i + 1, rooted, Append(out, elems[i]))

\* the elements with "/" between them
RECURSIVE JoinElements(_)
JoinElements(elems) ==
  IF elems = << >> THEN << >>
  ELSE IF Len(elems) = 1 THEN elems[1]
  ELSE elems[1] \o <<"/">> \o JoinElements(Tail(elems))

\* filepath.Clean(path) on a system whose separator is "/"
Clean(path) ==
  LET rooted == HasPrefix(path, <<"/">>)
      out == JoinElements(CleanElements(Split(path, "/"), 1, rooted, << >>))
  IN IF rooted THEN <<"/">> \o out
     ELSE IF out = << >> THEN <<".">>
     ELSE out

\* filepath.Join(a, b): empty elements are ignored, the result is cleaned,
\* and it is empty when both are empty
Join(a, b) ==
  IF a = << >> /\ b = << >> THEN << >>
  ELSE IF a = << >> THEN Clean(b)
  ELSE IF b = << >> THEN Clean(a)
  ELSE Clean(a \o <<"/">> \o b)

\* what ProjectSlug returns
SlugResult(slug, e) == [slug |-> slug, err |-> e]

\* b.ProjectSlug() with b.RepoURL = rawurl, build.go:100-120
ProjectSlug(rawurl) ==
  LET url == Parse(rawurl)
      host == Split(url.Host, ":")
      slug == Clean(TrimSuffix(Join(host[1], url.Path)))
  IN IF url.err # Nil THEN SlugResult(<< >>, url.err)
     ELSE IF url.Host = << >> THEN SlugResult(<< >>, "only URI reference supported")
     ELSE IF slug = <<".">> THEN SlugResult(<< >>, "invalid path")
     ELSE IF ContainsDotDot(slug)
          THEN SlugResult(<< >>, "it doesn't look like a valid path")
     ELSE SlugResult(slug, Nil)

\* the repository URLs of the jobs: with a scheme, with "//" alone or bare;
\* a host with or without a port, a port alone, nothing, or dots; and up to
\* MaxSegments path segments
Prefixes == { <<"https", ":", "/", "/">>, <<"/", "/">>, << >> }
Hosts ==
  { <<"gitlab", ".", "example", ".", "com">>, <<"h", ":", "80">>, <<":", "80">>,
    << >>, <<".", "git">>, <<".", ".">> }
Segments == { <<"group">>, <<"project", ".", "git">>, <<".", ".">>, <<".">>, << >> }

\* the paths of n segments, each after a "/"
RECURSIVE PathsOf(_)
PathsOf(n) ==
  IF n = 0 THEN { << >> }
  ELSE { p \o <<"/">> \o seg : p \in PathsOf(n - 1), seg \in Segments }

RepoURLs ==
  { prefix \o host \o path :
      prefix \in Prefixes, host \in Hosts,
      path \in UNION { PathsOf(n) : n \in 0..MaxSegments } }

\* a job with repository URL rawurl is received
SetRepoURL(rawurl) ==
  /\ RepoURL = << >>
  /\ RepoURL' = rawurl
  /\ slugRet' = << >>
  /\ UNCHANGED exceptSlug

\* the caller calls b.ProjectSlug()
CallProjectSlug ==
  /\ slugRet = << >>
  /\ slugRet' = <<ProjectSlug(RepoURL)>>
  /\ UNCHANGED <<RepoURL, exceptSlug>>

(* --------------------------- collaborators ----------------------------- *)

\* GetExecutor(name): the registered executor, or nil
GetExecutor(name) == IF name \in RegisteredExecutors THEN name ELSE Nil

\* executor.Finish(err): the backend records the outcome on the build
ExecutorFinish(outcome) ==
  IF outcome = Nil
  THEN FinishBuild(Success, <<"Build succeeded.">>, << >>)
  ELSE FinishBuild(Failed, <<"Build failed with ", "%v">>, <<outcome>>)

(* ------------------------ the orchestrating thread --------------------- *)

\* the thread is in no call
Idle == pc \in {"idle", "done"}

\* the locals of SendBuildLog when no SendBuildLog is running
NoSend ==
  /\ buildTrace' = << >>
  /\ failsLeft' = 0 /\ k' = 0
  /\ updates' = 0 /\ sleeps' = 0 /\ lastUpdate' = "none"
  /\ sent' = {} /\ logAtEntry' = << >>

\* the locals of Run when no Run is running
NoRun == executor' = Nil /\ err' = Nil

Bump(n) == IF n < CounterCap THEN n + 1 ELSE n

\* the caller calls b.StartBuild
CallStartBuild(buildDir) ==
  /\ Idle
  /\ StartBuild(buildDir)
  /\ op' = "StartBuild" /\ pc' = "done" /\ ret' = NoReturn /\ calls' = << >>
  /\ usage' = IF usage = "new" THEN "started" ELSE "free"
  /\ NoSend /\ NoRun
  /\ UNCHANGED <<regVars, extVars, Runner, buildLog>>

\* the caller calls b.FinishBuild
CallFinishBuild(buildState, buildMessage, args) ==
  /\ Idle
  /\ FinishBuild(buildState, buildMessage, args)
  /\ op' = "FinishBuild" /\ pc' = "done" /\ ret' = NoReturn /\ calls' = << >>
  /\ usage' = "free"
  /\ NoSend /\ NoRun
  /\ UNCHANGED <<regVars, extVars, Runner, buildLog>>

\* buildTrace before the first attempt, build.go:164-169; the collaborator
\* is one that fails f times, or forever
SendBuildLogEnter ==
  /\ buildTrace' = IF BuildMessage # << >> THEN BuildLog \o BuildMessage ELSE BuildLog
  /\ \E f \in (0..MaxFails) \cup {Forever} : failsLeft' = f /\ k' = f
  /\ updates' = 0 /\ sleeps' = 0 /\ lastUpdate' = "none"
  /\ sent' = {} /\ logAtEntry' = BuildLog

\* faulty variant: the buffer is reset once the trace is taken from it
CallSendBuildLogDrains ==
  /\ Idle
  /\ SendBuildLogEnter
  /\ op' = "SendBuildLog" /\ pc' = "update" /\ ret' = NoReturn
  /\ calls' = <<<<"SendBuildLog", Nil>>>>
  /\ NoRun
  /\ buildLog' = << >>
  /\ UNCHANGED <<regVars, extVars, Runner, BuildState, BuildMessage, BuildDir,
                 timeVars, usage>>

\* the caller calls b.SendBuildLog
CallSendBuildLog ==
  /\ Idle
  /\ SendBuildLogEnter
  /\ op' = "SendBuildLog" /\ pc' = "update" /\ ret' = NoReturn
  /\ calls' = <<<<"SendBuildLog", Nil>>>>
  /\ NoRun
  /\ UNCHANGED <<regVars, extVars, Runner, BuildState, BuildMessage, BuildDir, buildLog,
                 timeVars, usage>>

\* faulty variant: the loop gives up after MaxFails attempts
UpdateBuildCapped ==
  /\ pc = "update"
  /\ updates' = Bump(updates)
  /\ sent' = sent \cup {buildTrace}
  /\ IF failsLeft = 0 \/ updates + 1 >= MaxFails
     THEN /\ \E o \in NotFailed : lastUpdate' = IF failsLeft = 0 THEN o ELSE UpdateFailed
          /\ pc' = IF op = "Run" THEN "return" ELSE "done"
          /\ UNCHANGED failsLeft
     ELSE /\ lastUpdate' = UpdateFailed
          /\ pc' = "sleep"
          /\ failsLeft' = IF failsLeft = Forever THEN Forever ELSE failsLeft - 1
  /\ UNCHANGED <<regVars, extVars, Runner, BuildState, BuildMessage, BuildDir, buildLog,
                 timeVars, buildTrace, logAtEntry, k, sleeps, op, executor, err, ret, calls,
                 usage>>

\* faulty variant: each attempt takes the trace from the log anew
UpdateBuildRereads ==
  /\ pc = "update"
  /\ updates' = Bump(updates)
  /\ sent' = sent \cup {IF BuildMessage # << >> THEN BuildLog \o BuildMessage ELSE BuildLog}
  /\ IF failsLeft = 0
     THEN /\ \E o \in NotFailed : lastUpdate' = o
          /\ pc' = IF op = "Run" THEN "return" ELSE "done"
          /\ UNCHANGED failsLeft
     ELSE /\ lastUpdate' = UpdateFailed
          /\ pc' = "sleep"
          /\ failsLeft' = IF failsLeft = Forever THEN Forever ELSE failsLeft - 1
  /\ UNCHANGED <<regVars, extVars, Runner, BuildState, BuildMessage, BuildDir, buildLog,
                 timeVars, buildTrace, logAtEntry, k, sleeps, op, executor, err, ret, calls,
                 usage>>

\* one attempt: UpdateBuild(...) != UpdateFailed leaves the loop,
\* build.go:171-174 and 177-178
UpdateBuild ==
  /\ pc = "update"
  /\ updates' = Bump(updates)
  /\ sent' = sent \cup {buildTrace}
  /\ IF failsLeft = 0
     THEN /\ \E o \in NotFailed : lastUpdate' = o
          /\ pc' = IF op = "Run" THEN "return" ELSE "done"
          /\ UNCHANGED failsLeft
     ELSE /\ lastUpdate' = UpdateFailed
          /\ pc' = "sleep"
          /\ failsLeft' = IF failsLeft = Forever THEN Forever ELSE failsLeft - 1
  /\ UNCHANGED <<regVars, extVars, Runner, BuildState, BuildMessage, BuildDir, buildLog,
                 timeVars, buildTrace, logAtEntry, k, sleeps, op, executor, err, ret, calls,
                 usage>>

\* faulty variant: the retry does not sleep
SleepSkipped ==
  /\ pc = "sleep"
  /\ pc' = "update"
  /\ UNCHANGED <<regVars, extVars, Runner, BuildState, BuildMessage, BuildDir, buildLog,
                 timeVars, buildTrace, failsLeft, k, updates, sleeps, lastUpdate, sent,
                 logAtEntry,
                 op, executor, err, ret, calls, usage>>

\* time.Sleep(UpdateRetryInterval * time.Second), build.go:175
Sleep ==
  /\ pc = "sleep"
  /\ sleeps' = Bump(sleeps)
  /\ pc' = "update"
  /\ UNCHANGED <<regVars, extVars, Runner, BuildState, BuildMessage, BuildDir, buildLog,
                 timeVars, buildTrace, failsLeft, k, updates, lastUpdate, sent, logAtEntry,
                 op, executor, err, ret, calls, usage>>

\* faulty variant: an unresolved executor is not reported
RunGetExecutorNoReport ==
  /\ Idle
  /\ op' = "Run" /\ err' = Nil /\ ret' = NoReturn /\ calls' = << >>
  /\ executor' = GetExecutor(Runner.Executor)
  /\ IF executor' = Nil
     THEN /\ FinishBuild(Failed, <<"Executor not found: ", "%v">>, <<Runner.Executor>>)
          /\ pc' = "return"
     ELSE /\ pc' = "prepare"
          /\ UNCHANGED <<BuildState, BuildMessage, BuildDir, timeVars>>
  /\ usage' = IF usage = "started" THEN "running" ELSE "free"
  /\ NoSend
  /\ UNCHANGED <<regVars, extVars, Runner, buildLog>>

\* b.Run() up to the call of SendBuildLog or Prepare, build.go:180-183
RunGetExecutor ==
  /\ Idle
  /\ op' = "Run" /\ err' = Nil /\ ret' = NoReturn /\ calls' = << >>
  /\ executor' = GetExecutor(Runner.Executor)
  /\ IF executor' = Nil
     THEN /\ FinishBuild(Failed, <<"Executor not found: ", "%v">>, <<Runner.Executor>>)
          /\ pc' = "send"
     ELSE /\ pc' = "prepare"
          /\ UNCHANGED <<BuildState, BuildMessage, BuildDir, timeVars>>
  /\ usage' = IF usage = "started" THEN "running" ELSE "free"
  /\ NoSend
  /\ UNCHANGED <<regVars, extVars, Runner, buildLog>>

\* b.SendBuildLog() called by Run, build.go:184
RunSendBuildLog ==
  /\ pc = "send"
  /\ SendBuildLogEnter
  /\ pc' = "update"
  /\ calls' = Append(calls, <<"SendBuildLog", Nil>>)
  /\ UNCHANGED <<regVars, extVars, Runner, BuildState, BuildMessage, BuildDir, buildLog,
                 timeVars, op, executor, err, ret, usage>>

\* return errors.New("executor not found"), build.go:185
RunReturnNotFound ==
  /\ pc = "return"
  /\ ret' = ErrExecutorNotFound
  /\ pc' = "done"
  /\ usage' = IF usage = "running" THEN "ran" ELSE usage
  /\ UNCHANGED <<regVars, extVars, Runner, BuildState, BuildMessage, BuildDir, buildLog,
                 timeVars, sendVars, op, executor, err, calls>>

\* err := executor.Prepare(b.Runner, b), build.go:188
RunPrepare ==
  /\ pc = "prepare"
  /\ \E e \in {Nil} \cup StageErrors :
       err' = e /\ calls' = Append(calls, <<"Prepare", e>>)
  /\ pc' = "start"
  /\ UNCHANGED <<regVars, extVars, Runner, BuildState, BuildMessage, BuildDir, buildLog,
                 timeVars, sendVars, op, executor, ret, usage>>

\* faulty variant: Start is called whatever Prepare returned
RunStartAlways ==
  /\ pc = "start"
  /\ \E e \in {Nil} \cup StageErrors :
       err' = e /\ calls' = Append(calls, <<"Start", e>>)
  /\ pc' = "wait"
  /\ UNCHANGED <<regVars, extVars, Runner, BuildState, BuildMessage, BuildDir, buildLog,
                 timeVars, sendVars, op, executor, ret, usage>>

\* if err == nil { err = executor.Start() }, build.go:189-191
RunStart ==
  /\ pc = "start"
  /\ IF err = Nil
     THEN \E e \in {Nil} \cup StageErrors :
            err' = e /\ calls' = Append(calls, <<"Start", e>>)
     ELSE UNCHANGED <<err, calls>>
  /\ pc' = "wait"
  /\ UNCHANGED <<regVars, extVars, Runner, BuildState, BuildMessage, BuildDir, buildLog,
                 timeVars, sendVars, op, executor, ret, usage>>

\* if err == nil { err = executor.Wait() }, build.go:192-194
RunWait ==
  /\ pc = "wait"
  /\ IF err = Nil
     THEN \E e \in {Nil} \cup StageErrors :
            err' = e /\ calls' = Append(calls, <<"Wait", e>>)
     ELSE UNCHANGED <<err, calls>>
  /\ pc' = "finish"
  /\ UNCHANGED <<regVars, extVars, Runner, BuildState, BuildMessage, BuildDir, buildLog,
                 timeVars, sendVars, op, executor, ret, usage>>

\* executor.Finish(err), build.go:195
RunFinish ==
  /\ pc = "finish"
  /\ calls' = Append(calls, <<"Finish", err>>)
  /\ ExecutorFinish(err)
  /\ pc' = "cleanup"
  /\ UNCHANGED <<regVars, extVars, Runner, buildLog, sendVars, op, executor, err, ret, usage>>

\* faulty variant: Cleanup is skipped when a stage failed
RunCleanupOnSuccess ==
  /\ pc = "cleanup"
  /\ calls' = IF executor # Nil /\ err = Nil THEN Append(calls, <<"Cleanup", Nil>>) ELSE calls
  /\ ret' = err
  /\ pc' = "done"
  /\ usage' = IF usage = "running" THEN "ran" ELSE usage
  /\ UNCHANGED <<regVars, extVars, Runner, BuildState, BuildMessage, BuildDir, buildLog,
                 timeVars, sendVars, op, executor, err>>

\* faulty variant: Run returns nil once Finish and Cleanup ran
RunCleanupReturnsNil ==
  /\ pc = "cleanup"
  /\ calls' = IF executor # Nil THEN Append(calls, <<"Cleanup", Nil>>) ELSE calls
  /\ ret' = Nil
  /\ pc' = "done"
  /\ usage' = IF usage = "running" THEN "ran" ELSE usage
  /\ UNCHANGED <<regVars, extVars, Runner, BuildState, BuildMessage, BuildDir, buildLog,
                 timeVars, sendVars, op, executor, err>>

\* if executor != nil { executor.Cleanup() }; return err, build.go:196-199
RunCleanup ==
  /\ pc = "cleanup"
  /\ calls' = IF executor # Nil THEN Append(calls, <<"Cleanup", Nil>>) ELSE calls
  /\ ret' = err
  /\ pc' = "done"
  /\ usage' = IF usage = "running" THEN "ran" ELSE usage
  /\ UNCHANGED <<regVars, extVars, Runner, BuildState, BuildMessage, BuildDir, buildLog,
                 timeVars, sendVars, op, executor, err>>

(* --------------------------- specifications ---------------------------- *)

InitBuild ==
  /\ Runner \in RunnerConfigs
  /\ BuildState = ""
  /\ BuildStarted = ZeroTime
  /\ BuildFinished = ZeroTime
  /\ BuildDuration = 0
  /\ BuildMessage = << >>
  /\ BuildDir = ""
  /\ buildLog = << >>
  /\ clock = Epoch
  /\ op = "none"
  /\ pc = "idle"
  /\ executor = Nil
  /\ err = Nil
  /\ ret = NoReturn
  /\ calls = << >>
  /\ buildTrace = << >>
  /\ failsLeft = 0
  /\ k = 0
  /\ updates = 0
  /\ sleeps = 0
  /\ lastUpdate = "none"
  /\ sent = {}
  /\ logAtEntry = << >>
  /\ usage = "new"

InitRegistry ==
  /\ builds = << >>
  /\ cand = << >>
  /\ otherBuilds = << >>
  /\ assigned = << >>

\* no log thread is inside a method, the lock is free
InitLog ==
  /\ writers = {}
  /\ readers = {}
  /\ pendingW = {}
  /\ tpc = [t \in LogThreads |-> "idle"]
  /\ todo = [t \in LogThreads |-> << >>]
  /\ logRead = [t \in LogThreads |-> << >>]
  /\ lenRead = [t \in LogThreads |-> 0]
  /\ atStart = [t \in LogThreads |-> NoReads]
  /\ doneReads = NoReads
  /\ issued = << >>
  /\ order = << >>

\* no repository URL yet
InitSlug ==
  /\ RepoURL = << >>
  /\ slugRet = << >>

\* no registrar has begun
InitRace ==
  /\ rpc = [p \in Registrars |-> "idle"]
  /\ snapshot = [p \in Registrars |-> << >>]
  /\ mine = [p \in Registrars |-> << >>]
  /\ raced = FALSE

Init == InitRegistry /\ InitBuild /\ InitLog /\ InitSlug /\ InitRace

\* the same with the one build's runner fixed, where no build is run
InitAllocator == Init /\ Runner.Executor = "shell"

\* one build: the caller's calls, Run and SendBuildLog step by step, and the
\* output pump
Next ==
  \/ \E buildDir \in {"builds/r1-1-0"} : CallStartBuild(buildDir)
  \/ \E buildState \in {Failed, Success} :
       CallFinishBuild(buildState, <<"boom ", "%d">>, <<7>>)
  \/ CallSendBuildLog
  \/ UpdateBuild
  \/ Sleep
  \/ RunGetExecutor
  \/ RunSendBuildLog
  \/ RunReturnNotFound
  \/ RunPrepare
  \/ RunStart
  \/ RunWait
  \/ RunFinish
  \/ RunCleanup
  \/ \E data \in {<<"out">>} : WriteString(data)

Spec == Init /\ [][Next]_vars

\* the reporting thread is scheduled: an attempt or a sleep that can be
\* taken is taken
LiveSpec == Spec /\ WF_vars(UpdateBuild) /\ WF_vars(Sleep)

\* the registry under linearized registration
NextRegistry ==
  \/ \E job \in Jobs : Register(job[1], job[2])
  \/ \E i \in 1..MaxBuilds : Deregister(i)

SpecRegistry == InitAllocator /\ [][NextRegistry]_vars

\* AssignID applied to any otherBuilds
NextAssignID ==
  \/ \E o \in AnyBuilds : AddOther(o)
  \/ \E job \in Jobs : CallAssignID(NewBuild(job[1], job[2]))

SpecAssignID == InitAllocator /\ [][NextAssignID]_vars

\* the goroutines that share one build's log, each method step by step
NextLog ==
  \E t \in LogThreads :
    \/ BuildLogRLock(t)
    \/ BuildLogString(t)
    \/ BuildLogRUnlock(t)
    \/ BuildLogLenRLock(t)
    \/ BuildLogLenLen(t)
    \/ BuildLogLenRUnlock(t)
    \/ \E data \in StringData : WriteStringCall(t, data)
    \/ WriteStringLock(t)
    \/ WriteStringWrite(t)
    \/ WriteStringUnlock(t)
    \/ \E r \in Runes : WriteRuneCall(t, r)
    \/ WriteRuneLock(t)
    \/ WriteRuneWrite(t)
    \/ WriteRuneUnlock(t)

SpecLog == InitAllocator /\ [][NextLog]_vars

\* ProjectSlug applied to the repository URLs
NextSlug ==
  \/ \E rawurl \in RepoURLs : SetRepoURL(rawurl)
  \/ CallProjectSlug

SpecSlug == InitAllocator /\ [][NextSlug]_vars

\* registrars whose three steps interleave, and builds that leave
NextRace ==
  \/ \E p \in Registrars, job \in RacingJobs : ReadActive(p, job[1], job[2])
  \/ \E p \in Registrars : AssignOnSnapshot(p)
  \/ \E p \in Registrars : RegisterAssigned(p)
  \/ \E i \in 1..MaxRacing : Deregister(i)

SpecRace == InitAllocator /\ [][NextRace]_vars

(* ------------------------------- claims -------------------------------- *)


\* C1: under linearized registration no two active builds share a GlobalID,
\* no two with equal runner short description share a RunnerID, and no two
\* with equal short description and equal ProjectID share a ProjectRunnerID.
UniqueIDs ==
  \A i, j \in 1..Len(builds) :
    i # j =>
      /\ builds[i].GlobalID # builds[j].GlobalID
      /\ ShortDescription(builds[i].Runner) = ShortDescription(builds[j].Runner)
           => /\ builds[i].RunnerID # builds[j].RunnerID
              /\ builds[i].ProjectID = builds[j].ProjectID
                   => builds[i].ProjectRunnerID # builds[j].ProjectRunnerID

\* a full registry after a deregistration and a re-registration: a later
\* build holds a smaller GlobalID, two builds of distinct runner
\* configurations share the short description, and two share runner and project
UniqueIDsWitness ==
  /\ Len(builds) = MaxBuilds
  /\ \E i, j \in 1..Len(builds) : i < j /\ builds[i].GlobalID > builds[j].GlobalID
  /\ \E i, j \in 1..Len(builds) :
       /\ i # j
       /\ builds[i].Runner # builds[j].Runner
       /\ ShortDescription(builds[i].Runner) = ShortDescription(builds[j].Runner)
  /\ \E i, j \in 1..Len(builds) :
       /\ i # j
       /\ builds[i].Runner = builds[j].Runner
       /\ builds[i].ProjectID = builds[j].ProjectID

\* the smallest non-negative integer outside used
IsSmallestUnused(n, used) ==
  /\ n >= 0
  /\ n \notin used
  /\ \A m \in 0..(n - 1) : m \in used

SameRunner(o, b) == ShortDescription(o.Runner) = ShortDescription(b.Runner)

\* C2: AssignID sets each identity to the smallest non-negative integer not
\* used in its scope by the other builds: GlobalID over all of them, RunnerID
\* over those of equal short description, ProjectRunnerID over those of equal
\* short description and ProjectID; the other fields of b are left alone.
AssignsSmallestUnused ==
  assigned # << >> =>
    LET b == cand[1]
        after == assigned[1]
        others == { otherBuilds[i] : i \in 1..Len(otherBuilds) }
    IN /\ IsSmallestUnused(after.GlobalID, { o.GlobalID : o \in others })
       /\ IsSmallestUnused(after.RunnerID,
            { o.RunnerID : o \in { x \in others : SameRunner(x, b) } })
       /\ IsSmallestUnused(after.ProjectRunnerID,
            { o.ProjectRunnerID :
                o \in { x \in others : SameRunner(x, b) /\ x.ProjectID = b.ProjectID } })
       /\ after.Runner = b.Runner
       /\ after.ProjectID = b.ProjectID

\* others hold GlobalIDs {0,2} and the candidate received 1, while its
\* RunnerID and ProjectRunnerID differ from it and from each other
AssignsSmallestUnusedWitness ==
  /\ assigned # << >>
  /\ { otherBuilds[i].GlobalID : i \in 1..Len(otherBuilds) } = {0, 2}
  /\ assigned[1].GlobalID = 1
  /\ assigned[1].RunnerID = 2
  /\ assigned[1].ProjectRunnerID = 0

\* the indexes of the calls of a collaborator in the current call
CallsOf(name) == { i \in 1..Len(calls) : calls[i][1] = name }

Terminal == {Failed, Success}

\* Run found no executor and is past the resolution
NotFoundPath ==
  op = "Run" /\ executor = Nil /\ pc \in {"send", "update", "sleep", "return", "done"}

\* Run resolved an executor
FoundPath == op = "Run" /\ executor # Nil

\* C3: when Run cannot resolve the executor name the build is Failed with a
\* message naming the missing executor, SendBuildLog is invoked exactly once,
\* none of Prepare, Start, Wait, Finish, Cleanup is invoked, and Run returns
\* a non-nil error.
ExecutorNotFound ==
  NotFoundPath =>
    /\ BuildState = Failed
    /\ \E i \in 1..Len(BuildMessage) : BuildMessage[i] = Runner.Executor
    /\ \A stage \in {"Prepare", "Start", "Wait", "Finish", "Cleanup"} : CallsOf(stage) = {}
    /\ Cardinality(CallsOf("SendBuildLog")) = IF pc = "send" THEN 0 ELSE 1
    /\ pc = "done" => ret \notin {Nil, NoReturn}

\* Run returned on the executor-not-found path after the reporter retried
ExecutorNotFoundWitness ==
  NotFoundPath /\ pc = "done" /\ sleeps = MaxFails /\ usage = "ran"

\* C4: once resolution succeeded Finish and Cleanup are each invoked exactly
\* once, Finish before Cleanup and both after every attempted stage.
FinishAndCleanupOnce ==
  FoundPath =>
    /\ Cardinality(CallsOf("Finish")) <= 1
    /\ Cardinality(CallsOf("Cleanup")) <= 1
    /\ pc = "done" =>
         /\ Len(calls) >= 3
         /\ calls[Len(calls) - 1][1] = "Finish"
         /\ calls[Len(calls)][1] = "Cleanup"
         /\ Cardinality(CallsOf("Finish")) = 1
         /\ Cardinality(CallsOf("Cleanup")) = 1

\* Run returned after Start failed: Prepare, Start, Finish, Cleanup
FinishAndCleanupOnceWitness ==
  /\ FoundPath /\ pc = "done"
  /\ Len(calls) = 4
  /\ calls[2][1] = "Start" /\ calls[2][2] \in StageErrors

IsStage(c) == c[1] \in {"Prepare", "Start", "Wait"}

\* the stage calls of the current Run with their results, in order
Stages == SelectSeq(calls, IsStage)

StageOrder == <<"Prepare", "Start", "Wait">>

\* C5: Prepare, Start, Wait are invoked at most once each and in that order,
\* and a stage is invoked only if every stage before it returned no error.
StagesInOrder ==
  /\ Len(Stages) <= 3
  /\ \A i \in 1..Len(Stages) : Stages[i][1] = StageOrder[i]
  /\ \A i \in 1..(Len(Stages) - 1) : Stages[i][2] = Nil

\* Run returned after Start failed and Wait was skipped
StagesInOrderWitness ==
  /\ FoundPath /\ pc = "done"
  /\ Len(Stages) = 2
  /\ Stages[2][2] \in StageErrors

\* the error of the first stage call that failed, nil when none did
FirstFailure(stages) ==
  IF \E i \in 1..Len(stages) : stages[i][2] # Nil
  THEN stages[CHOOSE i \in 1..Len(stages) :
                /\ stages[i][2] # Nil
                /\ \A j \in 1..(i - 1) : stages[j][2] = Nil][2]
  ELSE Nil

\* C6: once resolution succeeded Run returns the error of the first failing
\* stage, nil when all three succeeded, and Finish was given that same value.
ReturnsFirstFailure ==
  FoundPath /\ pc = "done" =>
    /\ ret = FirstFailure(Stages)
    /\ \A i \in CallsOf("Finish") : calls[i][2] = ret

\* Run returned the error of Wait
ReturnsFirstFailureWitness ==
  /\ FoundPath /\ pc = "done"
  /\ Len(Stages) = 3
  /\ ret \in StageErrors

Rank(state) ==
  CASE state = "" -> 0
    [] state = Pending -> 1
    [] state = Running -> 2
    [] OTHER -> 3

RetriesThenReturns ==
  /\ lastUpdate \in NotFailed => k # Forever /\ updates = k + 1 /\ sleeps = k
  /\ pc \in {"update", "sleep"} /\ k # Forever =>
       /\ updates = k - failsLeft
       /\ sleeps = IF pc = "sleep" THEN updates - 1 ELSE updates

\* SendBuildLog returned after MaxFails failed attempts
RetriesThenReturnsWitness ==
  op = "SendBuildLog" /\ pc = "done" /\ lastUpdate \in NotFailed /\ k = MaxFails

\* SendBuildLog is in its loop
Sending == pc \in {"update", "sleep"}

\* C10: SendBuildLog returns if and only if the collaborator eventually does
\* not fail: with a collaborator that recovers the status is eventually
\* delivered, with one that always fails the loop (and a Run that entered it)
\* is never left.
NeverGivesUp ==
  /\ [](Sending /\ k # Forever => <>(lastUpdate \in NotFailed))
  /\ [][Sending /\ k = Forever => Sending' /\ k' = Forever /\ op' = op]_vars

\* a Run on the executor-not-found path still retrying after more attempts
\* than the counters count
NeverGivesUpWitness ==
  NotFoundPath /\ Sending /\ k = Forever /\ updates = CounterCap /\ sleeps = CounterCap

\* the concatenation of the strings of seq
RECURSIVE Flatten(_)
Flatten(seq) == IF seq = << >> THEN << >> ELSE Head(seq) \o Flatten(Tail(seq))

\* the log as it stood before the first append and after each one
Snapshots == { Flatten(SubSeq(order, 1, n)) : n \in 0..Len(order) }

\* how often d occurs in seq
Count(d, seq) == Cardinality({ i \in 1..Len(seq) : seq[i] = d })

\* the log threads blocked in Lock() with data d
Waiting(d) == { t \in pendingW : todo[t] = d }

\* C11: every BuildLog() result is the log as of before or after each append,
\* never a partly written one; when no append holds the lock the buffer is the
\* concatenation of the appends that took the lock, in that order, and these
\* are exactly the appends called and not still waiting, each once.
AppendsAreAtomic ==
  /\ \A t \in LogThreads : logRead[t] \in Snapshots
  /\ doneReads.BuildLog \in Snapshots
  /\ writers = {} =>
       /\ buildLog = Flatten(order)
       /\ \A d \in StringData \cup { EncodeRune(r) : r \in Runes } :
            Count(d, order) + Cardinality(Waiting(d)) = Count(d, issued)

\* a BuildLog() holds the whole of the first append as its result while a
\* second append waits for the lock
AppendsAreAtomicWitness ==
  \E t \in LogThreads :
    /\ tpc[t] = "BuildLog.RUnlock"
    /\ Len(order) = 1
    /\ logRead[t] = order[1]
    /\ pendingW # {}

\* C12: the value BuildLogLen is about to return is the length of the buffer
\* at that instant, the buffer then holds whole appends only, so a BuildLog
\* taken at the same instant returns content of that length; the largest value
\* returned so far is such a length too.
LenIsOfWholeAppends ==
  /\ \A t \in LogThreads :
       tpc[t] = "BuildLogLen.RUnlock" =>
         /\ lenRead[t] = Len(buildLog)
         /\ buildLog \in Snapshots
         /\ \A u \in LogThreads :
              tpc[u] = "BuildLog.RUnlock" => Len(logRead[u]) = lenRead[t]
  /\ doneReads.BuildLogLen \in { Len(snap) : snap \in Snapshots }

\* a BuildLogLen and a BuildLog hold their results together, after one append
\* and with another one waiting
LenIsOfWholeAppendsWitness ==
  \E t, u \in LogThreads :
    /\ tpc[t] = "BuildLogLen.RUnlock"
    /\ tpc[u] = "BuildLog.RUnlock"
    /\ lenRead[t] = Len(logRead[u])
    /\ lenRead[t] > 0
    /\ pendingW # {}

\* thread t is between Lock() and Unlock() of an append
Appending(t) == tpc[t] \in {"WriteString.Write", "WriteRune.Write"}

\* thread t is between RLock() and RUnlock() of a read
Reading(t) ==
  tpc[t] \in {"BuildLog.String", "BuildLog.RUnlock", "BuildLogLen.Len", "BuildLogLen.RUnlock"}

\* C17: while an append is inside its critical section no other append and no
\* read is inside its own; the lock is held by exactly the threads that are
\* inside a critical section, so it is free when no operation is in progress.
ExclusionAndRelease ==
  /\ \A t, u \in LogThreads :
       Appending(t) /\ u # t => ~Appending(u) /\ ~Reading(u)
  /\ writers = { t \in LogThreads : Appending(t) }
  /\ readers = { t \in LogThreads : Reading(t) }
  /\ (\A t \in LogThreads : tpc[t] = "idle") => writers = {} /\ readers = {}

\* a BuildLog and a BuildLogLen are inside their critical sections together
\* while an append waits for them
ExclusionAndReleaseWitness ==
  \E t, u \in LogThreads :
    /\ tpc[t] = "BuildLog.String"
    /\ tpc[u] = "BuildLogLen.Len"
    /\ readers = {t, u}
    /\ pendingW # {}

\* s is a prefix of t
IsPrefix(s, t) == Len(s) <= Len(t) /\ SubSeq(t, 1, Len(s)) = s

\* C18: the result a BuildLog is about to return extends every result
\* returned before this read began and is comparable with every result
\* returned so far; the value a BuildLogLen is about to return is at least
\* every value returned before it began; and no step shortens or rewrites the
\* buffer.
LogIsAppendOnly ==
  /\ [](\A t \in LogThreads :
          /\ tpc[t] = "BuildLog.RUnlock" =>
               /\ IsPrefix(atStart[t].BuildLog, logRead[t])
               /\ \/ IsPrefix(doneReads.BuildLog, logRead[t])
                  \/ IsPrefix(logRead[t], doneReads.BuildLog)
          /\ tpc[t] = "BuildLogLen.RUnlock" =>
               atStart[t].BuildLogLen <= lenRead[t])
  /\ [][IsPrefix(buildLog, buildLog')]_vars

\* a BuildLog that began after a non-empty result had been returned holds a
\* longer result
LogIsAppendOnlyWitness ==
  \E t \in LogThreads :
    /\ tpc[t] = "BuildLog.RUnlock"
    /\ atStart[t].BuildLog # << >>
    /\ Len(logRead[t]) > Len(atStart[t].BuildLog)

FinishBuildSetsDifference ==
  [][\A buildState \in Terminal :
       CallFinishBuild(buildState, <<"boom ", "%d">>, <<7>>) =>
         /\ BuildState' = buildState
         /\ BuildMessage' = <<"\n", "boom ", "7">>
         /\ BuildFinished' >= BuildStarted'
         /\ BuildDuration' = BuildFinished' - BuildStarted']_vars

\* C14 amended: the same, except that BuildDuration is the difference only
\* when StartBuild was called before; when it was not, BuildStarted is the zero
\* time and BuildDuration is the largest Duration.
FinishBuildSetsFields ==
  [][\A buildState \in Terminal :
       CallFinishBuild(buildState, <<"boom ", "%d">>, <<7>>) =>
         /\ BuildState' = buildState
         /\ BuildMessage' = <<"\n", "boom ", "7">>
         /\ BuildFinished' >= BuildStarted'
         /\ BuildDuration' = IF BuildStarted' = ZeroTime
                             THEN MaxDuration
                             ELSE BuildFinished' - BuildStarted']_vars

\* FinishBuild returned on a build that was never started
FinishBuildSetsFieldsWitness ==
  /\ op = "FinishBuild"
  /\ pc = "done"
  /\ BuildState = Failed
  /\ BuildMessage = <<"\n", "boom ", "7">>
  /\ BuildStarted = ZeroTime
  /\ BuildDuration = MaxDuration

\* the host of a URL: its authority up to the port
Hostname(rawurl) == Split(Parse(rawurl).Host, ":")[1]

\* the example URL and its slug
ExampleURL ==
  <<"https", ":", "/", "/", "gitlab", ".", "example", ".", "com",
    "/", "group", "/", "project", ".", "git">>
ExampleSlug == <<"gitlab", ".", "example", ".", "com", "/", "group", "/", "project">>

\* C15: ProjectSlug returns either a slug and no error or an error and the
\* empty slug; it returns an error when the URL has no host; no slug it
\* returns contains ".." or is "."; and the example URL gives the example
\* slug, its trailing ".git" stripped.
SlugOrError ==
  slugRet # << >> =>
    LET r == slugRet[1]
    IN /\ \/ r.err = Nil /\ r.slug # << >>
          \/ r.err # Nil /\ r.slug = << >>
       /\ Hostname(RepoURL) = << >> => r.err # Nil
       /\ r.err = Nil => ~ContainsDotDot(r.slug) /\ r.slug # <<".">>
       /\ RepoURL = ExampleURL => r = SlugResult(ExampleSlug, Nil)

\* C16: as long as no registrar began its three steps while another was
\* between its own, the identities of the active builds are unique in their
\* scopes; two registrars that interleave can leave two active builds with
\* the same identities (the witness).
UniqueUnlessRaced == ~raced => UniqueIDs

\* two registrars read the same active set and registered builds of the same
\* runner and project: both hold the same GlobalID, RunnerID and ProjectRunnerID
UniqueUnlessRacedWitness ==
  /\ raced
  /\ InFlight = {}
  /\ \E i, j \in 1..Len(builds) :
       /\ i # j
       /\ builds[i].Runner = builds[j].Runner
       /\ builds[i].ProjectID = builds[j].ProjectID
       /\ builds[i].GlobalID = builds[j].GlobalID
       /\ builds[i].RunnerID = builds[j].RunnerID
       /\ builds[i].ProjectRunnerID = builds[j].ProjectRunnerID

\* the trace of a SendBuildLog entered with log content log
TraceOf(log) == IF BuildMessage # << >> THEN log \o BuildMessage ELSE log

\* C19: every attempt of a SendBuildLog call is given the same trace: the log
\* content as it was when the call was entered, followed by BuildMessage when
\* the message is not empty; what is appended to the log while the call
\* retries is in none of them.
TraceComputedOnce ==
  op \in {"SendBuildLog", "Run"} => sent \subseteq {TraceOf(logAtEntry)}

\* a second attempt was made with the message-only trace after output was
\* appended to the log during the first retry
TraceComputedOnceWitness ==
  /\ op = "SendBuildLog"
  /\ updates >= 2
  /\ logAtEntry = << >>
  /\ buildLog # << >>
  /\ BuildMessage # << >>
  /\ sent = {BuildMessage}

\* the directories and the names the active builds hold
HeldDirs == { ProjectUniqueDir(builds[i]) : i \in 1..Len(builds) }
HeldNames == { ProjectUniqueName(builds[i]) : i \in 1..Len(builds) }

\* build b in slot n of its runner and project
InSlot(b, n) == [b EXCEPT !.ProjectRunnerID = n]

\* C20: under linearized registration no two active builds have the same
\* ProjectUniqueDir or the same ProjectUniqueName (there are as many held
\* directories and names as active builds); a build that registers gets
\* a directory and a name that no active build holds, and every lower slot of
\* its runner and project is held by an active build then, so a directory is
\* given out again only after its holder has left, lowest free slot first.
UniqueDirsAndNames ==
  /\ [](/\ Cardinality(HeldDirs) = Len(builds)
        /\ Cardinality(HeldNames) = Len(builds))
  /\ [][Len(builds') = Len(builds) + 1 =>
          LET b == builds'[Len(builds')]
          IN /\ ProjectUniqueDir(b) \notin HeldDirs
             /\ ProjectUniqueName(b) \notin HeldNames
             /\ \A n \in 0..(b.ProjectRunnerID - 1) :
                  /\ ProjectUniqueDir(InSlot(b, n)) \in HeldDirs
                  /\ ProjectUniqueName(InSlot(b, n)) \in HeldNames]_vars

\* the directory r1-1-0 was freed and given out again while r1-1-1 stayed held
UniqueDirsAndNamesWitness ==
  /\ Len(builds) = 2
  /\ ProjectUniqueDir(builds[1]) = "r1-1-1"
  /\ ProjectUniqueDir(builds[2]) = "r1-1-0"
  /\ ProjectUniqueName(builds[2]) = "runner-r1-project-1-concurrent-0"
====
